---- MODULE Spec2Model ----
(***************************************************************************)
(* A model of src/yaml.ts (class Yaml and loadurl): multi-document YAML    *)
(* serialization (stringify, save, tmp) and loading (load).                *)
(*                                                                         *)
(* Text is a sequence of one-character strings, so that serialization and  *)
(* parsing are real conversions between values and characters.  The YAML   *)
(* codec (the `yaml` package called at yaml.ts:46 and yaml.ts:75) is       *)
(* modelled on the subset of YAML that the values below produce: block     *)
(* mappings and sequences of flow scalars, plain and double-quoted         *)
(* scalars, empty flow collections, the !!set tag, an alias, and an        *)
(* unterminated flow collection as the malformed case.                     *)
(***************************************************************************)
EXTENDS Integers, Sequences, FiniteSets, TLC

\* Bounds of the model.
MaxDocs == 2
NumProcs == 2
MaxTmpDirs == 2

\* yaml.ts:7
MAX_DOWNLOAD_BUFFER == 10 * 1024 * 1024

\* The other schema version the codec knows; a mutation of yamlSchemaVersion.
yamlSchemaVersion_12 == "1.2"

\* yaml.ts:12
yamlSchemaVersion == "1.1"

\* The keepUndefined option dropped (the codec's default); a mutation.
keepUndefined_off == FALSE

\* yaml.ts:46, option keepUndefined: true
keepUndefined == TRUE

----------------------------------------------------------------------------
(* JavaScript values.  A string is a sequence of characters, a mapping is a *)
(* sequence of <<key, value>> pairs in insertion order.                     *)

Undef == [k |-> "undefined", v |-> <<>>]
Null == [k |-> "null", v |-> <<>>]
Bool(b) == [k |-> "boolean", v |-> b]
Num(n) == [k |-> "number", v |-> n]
Str(cs) == [k |-> "string", v |-> cs]
Arr(items) == [k |-> "array", v |-> items]
Obj(pairs) == [k |-> "object", v |-> pairs]
\* A JavaScript Set, which the codec builds for a !!set document.
SetV(items) == [k |-> "set", v |-> items]

NL == "\n"
QUOTE == "\""
NullWord == <<"n", "u", "l", "l">>
TrueWord == <<"t", "r", "u", "e">>
FalseWord == <<"f", "a", "l", "s", "e">>
\* The document separator of yaml.ts:47, without its newline.
Marker == <<"-", "-", "-">>
SetTag == <<"!", "!", "s", "e", "t", " ">>

DigitChars == <<"0", "1", "2", "3", "4", "5", "6", "7", "8", "9">>
IsDigit(c) == \E i \in 1..10 : DigitChars[i] = c
DigitVal(c) == (CHOOSE i \in 1..10 : DigitChars[i] = c) - 1

RECURSIVE NumberToString(_)
\* String(n) for a non-negative integer.
NumberToString(n) ==
  IF n < 10 THEN <<DigitChars[n + 1]>>
  ELSE NumberToString(n \div 10) \o <<DigitChars[(n % 10) + 1]>>

RECURSIVE ParseInt(_, _)
\* parseInt(cs, radix) for a sequence of digits.
ParseInt(cs, radix) ==
  IF cs = <<>> THEN 0
  ELSE ParseInt(SubSeq(cs, 1, Len(cs) - 1), radix) * radix + DigitVal(cs[Len(cs)])

AllDigits(cs) == Len(cs) >= 1 /\ \A i \in 1..Len(cs) : IsDigit(cs[i])
AllOctal(cs) == \A i \in 1..Len(cs) : IsDigit(cs[i]) /\ DigitVal(cs[i]) <= 7

\* The 1.1 schema's extra spellings of the booleans.
TrueWords11 == {<<"y">>, <<"Y">>, <<"y", "e", "s">>, <<"o", "n">>}
FalseWords11 == {<<"n">>, <<"N">>, <<"n", "o">>, <<"o", "f", "f">>}

\* The value a plain (unquoted) scalar resolves to under a schema version:
\* the schema's tags tried in order (null, bool, octal int, int, string).
ResolvePlain(cs, version) ==
  IF cs = <<>> \/ cs = <<"~">> \/ cs = NullWord THEN Null
  ELSE IF cs = TrueWord THEN Bool(TRUE)
  ELSE IF cs = FalseWord THEN Bool(FALSE)
  ELSE IF version = "1.1" /\ cs \in TrueWords11 THEN Bool(TRUE)
  ELSE IF version = "1.1" /\ cs \in FalseWords11 THEN Bool(FALSE)
  ELSE IF AllDigits(cs) THEN
    IF version = "1.1" /\ Len(cs) > 1 /\ cs[1] = "0" /\ AllOctal(cs)
    THEN Num(ParseInt(cs, 8))
    ELSE Num(ParseInt(cs, 10))
  ELSE Str(cs)

\* Characters a plain scalar may not start with.
IndicatorChars == {" ", "[", "]", "{", "}", "*", "!", QUOTE, "#", "&"}

\* Every string written plain, as it stands.  A mutation of StringifyString.
StringifyString_plain(cs, version) == cs

\* A string is written plain unless it is empty, starts with an indicator, or
\* would be read back as something else than a string; then it is quoted.
StringifyString(cs, version) ==
  IF cs = <<>> \/ cs[1] \in IndicatorChars \/ ResolvePlain(cs, version).k # "string"
  THEN <<QUOTE>> \o cs \o <<QUOTE>>
  ELSE cs

\* A value inside a line: a scalar, or an empty collection in flow style.
\* undefined is written as null (Yaml.stringify's comment, yaml.ts:38).
StringifyNode(v, version) ==
  CASE v.k \in {"undefined", "null"} -> NullWord
    [] v.k = "boolean" -> IF v.v THEN TrueWord ELSE FalseWord
    [] v.k = "number" -> NumberToString(v.v)
    [] v.k = "string" -> StringifyString(v.v, version)
    [] v.k = "array" -> <<"[", "]">>
    [] v.k = "object" -> <<"{", "}">>

RECURSIVE StringifyItems(_, _)
StringifyItems(items, version) ==
  IF items = <<>> THEN <<>>
  ELSE <<"-", " ">> \o StringifyNode(Head(items), version) \o <<NL>>
       \o StringifyItems(Tail(items), version)

RECURSIVE StringifyPairs(_, _)
StringifyPairs(pairs, version) ==
  IF pairs = <<>> THEN <<>>
  ELSE StringifyString(Head(pairs)[1], version) \o <<":", " ">>
       \o StringifyNode(Head(pairs)[2], version) \o <<NL>>
       \o StringifyPairs(Tail(pairs), version)

IsDefinedPair(pair) == pair[2].k # "undefined"

\* YAML.stringify(r, {keepUndefined, lineWidth: 0, version}): one document,
\* ending with a newline.  Without keepUndefined the codec leaves out the
\* keys whose value is undefined.  lineWidth: 0 turns line folding off; the
\* strings here are too short to fold.
YamlStringify(r, keepUndef, version) ==
  IF r.k = "array" /\ r.v # <<>> THEN StringifyItems(r.v, version)
  ELSE IF r.k = "object" THEN
    LET kept == IF keepUndef THEN r.v ELSE SelectSeq(r.v, IsDefinedPair)
    IN IF kept = <<>> THEN <<"{", "}", NL>> ELSE StringifyPairs(kept, version)
  ELSE StringifyNode(r, version) \o <<NL>>

RECURSIVE Join(_, _)
\* Array.prototype.join
Join(texts, sep) ==
  IF texts = <<>> THEN <<>>
  ELSE IF Len(texts) = 1 THEN texts[1]
  ELSE texts[1] \o sep \o Join(Tail(texts), sep)

\* Yaml.stringify without the undefined placeholder: undefined documents
\* are left out.  A mutation of Stringify.
Stringify_skipUndefined(docs) ==
  LET defined == SelectSeq(docs, LAMBDA r : r.k # "undefined")
  IN Join([i \in 1..Len(defined) |->
             YamlStringify(defined[i], keepUndefined, yamlSchemaVersion)],
          Marker \o <<NL>>)

\* Yaml.stringify(...docs)
Stringify(docs) ==
  Join([i \in 1..Len(docs) |->
          IF docs[i].k = "undefined" THEN <<NL>>
          ELSE YamlStringify(docs[i], keepUndefined, yamlSchemaVersion)],
       Marker \o <<NL>>)

----------------------------------------------------------------------------
(* Parsing: YAML.parseAllDocuments(body, {version}) and Document.toJSON().  *)

RECURSIVE SplitLinesFrom(_, _, _)
SplitLinesFrom(text, i, cur) ==
  IF i > Len(text) THEN (IF cur = <<>> THEN <<>> ELSE <<cur>>)
  ELSE IF text[i] = NL THEN <<cur>> \o SplitLinesFrom(text, i + 1, <<>>)
  ELSE SplitLinesFrom(text, i + 1, Append(cur, text[i]))

\* The lines of a text, without their newlines.
SplitLines(text) == SplitLinesFrom(text, 1, <<>>)

RECURSIVE SplitDocsFrom(_, _, _)
SplitDocsFrom(lines, i, cur) ==
  IF i > Len(lines) THEN <<cur>>
  ELSE IF lines[i] = Marker THEN <<cur>> \o SplitDocsFrom(lines, i + 1, <<>>)
  ELSE SplitDocsFrom(lines, i + 1, Append(cur, lines[i]))

\* The runs of lines between the separator lines: one more than separators.
SplitDocs(lines) == SplitDocsFrom(lines, 1, <<>>)

NonBlank(lines) == SelectSeq(lines, LAMBDA l : l # <<>>)

\* The line runs that are documents of the stream: every run that follows a
\* separator, and the run before the first separator when it has content.
StreamDocuments(body) ==
  LET runs == SplitDocs(SplitLines(body))
  IN IF NonBlank(runs[1]) = <<>> THEN Tail(runs) ELSE runs

Parsed(value) == [value |-> value, errors |-> FALSE, throws |-> FALSE]
Broken(value) == [value |-> value, errors |-> TRUE, throws |-> FALSE]
\* An alias without its anchor: an error of the document, and toJSON throws.
Unresolved == [value |-> Null, errors |-> TRUE, throws |-> TRUE]

Inner(cs) == SubSeq(cs, 2, Len(cs) - 1)
StartsWith(cs, prefix) ==
  Len(cs) >= Len(prefix) /\ SubSeq(cs, 1, Len(prefix)) = prefix

\* A !!set node: a flow mapping whose keys are the members.
ParseSet(cs, version) ==
  IF Len(cs) >= 2 /\ cs[1] = "{" /\ cs[Len(cs)] = "}"
  THEN Parsed(SetV(IF Inner(cs) = <<>> THEN <<>>
                   ELSE <<ResolvePlain(Inner(cs), version)>>))
  ELSE Broken(SetV(<<>>))

\* One node written on a line.  A flow collection or a quoted scalar that is
\* not closed is an error of the document, which keeps what was read.
ParseFlow(cs, version) ==
  IF cs = <<>> THEN Parsed(Null)
  ELSE IF cs[1] = "*" THEN Unresolved
  ELSE IF StartsWith(cs, SetTag)
    THEN ParseSet(SubSeq(cs, Len(SetTag) + 1, Len(cs)), version)
  ELSE IF cs[1] = "[" THEN
    IF Len(cs) >= 2 /\ cs[Len(cs)] = "]"
    THEN Parsed(Arr(IF Inner(cs) = <<>> THEN <<>>
                    ELSE <<ResolvePlain(Inner(cs), version)>>))
    ELSE Broken(Arr(<<>>))
  ELSE IF cs[1] = "{" THEN
    IF Len(cs) >= 2 /\ cs[Len(cs)] = "}"
    THEN Parsed(Obj(IF Inner(cs) = <<>> THEN <<>>
                    ELSE <<<<Inner(cs), Null>>>>))
    ELSE Broken(Obj(<<>>))
  ELSE IF cs[1] = QUOTE THEN
    IF Len(cs) >= 2 /\ cs[Len(cs)] = QUOTE
    THEN Parsed(Str(Inner(cs)))
    ELSE Broken(Str(SubSeq(cs, 2, Len(cs))))
  ELSE Parsed(ResolvePlain(cs, version))

IsSeqItem(l) == Len(l) >= 2 /\ l[1] = "-" /\ l[2] = " "
IsColon(l, i) == l[i] = ":" /\ (i = Len(l) \/ l[i + 1] = " ")
IsPairLine(l) == l[1] # QUOTE /\ \E i \in 2..Len(l) : IsColon(l, i)
ColonAt(l) ==
  CHOOSE i \in 2..Len(l) : IsColon(l, i) /\ \A j \in 2..(i - 1) : ~IsColon(l, j)

\* A mapping key: property names are strings.
KeyOf(cs, version) ==
  LET r == ParseFlow(cs, version)
  IN IF r.value.k = "string" THEN r.value.v ELSE cs

\* One document from its lines.  Lines outside the subset (a multi-line
\* plain scalar, nested blocks) are reported as errors.
ParseDocument(lines, version) ==
  LET content == NonBlank(lines)
      n == Len(content)
  IN IF n = 0 THEN Parsed(Null)
     ELSE IF \A i \in 1..n : IsSeqItem(content[i]) THEN
       LET items == [i \in 1..n |->
                       ParseFlow(SubSeq(content[i], 3, Len(content[i])), version)]
       IN [value |-> Arr([i \in 1..n |-> items[i].value]),
           errors |-> \E i \in 1..n : items[i].errors,
           throws |-> \E i \in 1..n : items[i].throws]
     ELSE IF \A i \in 1..n : IsPairLine(content[i]) THEN
       LET vals == [i \in 1..n |->
                      ParseFlow(SubSeq(content[i], ColonAt(content[i]) + 2,
                                       Len(content[i])), version)]
       IN [value |-> Obj([i \in 1..n |->
                            <<KeyOf(SubSeq(content[i], 1, ColonAt(content[i]) - 1),
                                    version),
                              vals[i].value>>]),
           errors |-> \E i \in 1..n : vals[i].errors,
           throws |-> \E i \in 1..n : vals[i].throws]
     ELSE IF n = 1 THEN ParseFlow(content[1], version)
     ELSE Broken(Null)

\* YAML.parseAllDocuments(body, {version}): it returns every document, the
\* malformed ones with their errors recorded, and does not throw.
ParseAllDocuments(body, version) ==
  LET runs == StreamDocuments(body)
  IN [i \in 1..Len(runs) |-> ParseDocument(runs[i], version)]

----------------------------------------------------------------------------
(* The empty-document filter of Yaml.load.                                  *)

\* Array.isArray(obj)
IsArray(obj) == obj.k = "array"
\* typeof obj === 'object'
TypeofObject(obj) == obj.k \in {"null", "array", "object", "set"}
\* Object.keys(obj): the own enumerable property names.  An array has its
\* indices, a mapping its keys, a Set none.
ObjectKeys(obj) ==
  CASE obj.k = "array" -> [i \in 1..Len(obj.v) |-> NumberToString(i - 1)]
    [] obj.k = "object" -> [i \in 1..Len(obj.v) |-> obj.v[i][1]]
    [] OTHER -> <<>>

\* A loop that skips every falsy value and every empty collection.  A
\* mutation of IsSkipped.
IsSkipped_falsy(obj) ==
  \/ obj.k \in {"undefined", "null"}
  \/ obj.k = "boolean" /\ ~obj.v
  \/ obj.k = "number" /\ obj.v = 0
  \/ obj.k \in {"string", "array", "object"} /\ obj.v = <<>>

\* The four skips of the loop of Yaml.load.
IsSkipped(obj) ==
  \/ obj.k = "undefined"
  \/ obj.k = "null"
  \/ IsArray(obj) /\ Len(obj.v) = 0
  \/ TypeofObject(obj) /\ Len(ObjectKeys(obj)) = 0

\* The loop of Yaml.load over the converted documents.
FilterEmpty(objects) == SelectSeq(objects, LAMBDA obj : ~IsSkipped(obj))

----------------------------------------------------------------------------
(* The inputs: the documents callers pass, and the texts a URL serves.      *)

KeyA == <<"a">>
KeyB == <<"b">>
OctalLiteral == <<"0", "7", "7", "5">>

\* The values a caller puts in a document set.
DocValues ==
  { Undef, Null, Arr(<<>>), Obj(<<>>),
    Str(<<>>), Str(OctalLiteral), Num(509),
    Obj(<<<<KeyA, Str(<<"x">>)>>>>),
    Obj(<<<<KeyA, Undef>>, <<KeyB, Str(<<"y">>)>>>>),
    Arr(<<Bool(FALSE), Num(0)>>) }

\* The document sets of at most MaxDocs documents.
DocSets == UNION {[1..n -> DocValues] : n \in 0..MaxDocs}

OctalText == OctalLiteral \o <<NL>>
MalformedText == <<"a", ":", " ", "[", NL>>
GoodThenMalformedText == <<"x", NL>> \o Marker \o <<NL>> \o MalformedText
SetText == SetTag \o <<"{", "x", "}", NL>>
AliasText == <<"*", "x", NL>>
ScalarsText ==
  <<"0", NL>> \o Marker \o <<NL>> \o FalseWord \o <<NL>> \o Marker
  \o <<NL, QUOTE, QUOTE, NL>>

\* The texts a URL may serve.
ExternalTexts ==
  {OctalText, MalformedText, GoodThenMalformedText, SetText, AliasText, ScalarsText}

\* What the server of the URL does: it refuses (the collaborator exits
\* nonzero), or it serves one of ExternalTexts, or an output of exactly, or of
\* one byte over, the size cap (of which `out` keeps the beginning).
Refusal == [status |-> 1, size |-> 0, out |-> <<>>]
RemoteAnswers ==
  {Refusal}
  \cup {[status |-> 0, size |-> Len(t), out |-> t] : t \in ExternalTexts}
  \cup {[status |-> 0, size |-> n, out |-> OctalText] :
          n \in {MAX_DOWNLOAD_BUFFER, MAX_DOWNLOAD_BUFFER + 1}}

----------------------------------------------------------------------------
(* The state: the calls in progress and the filesystem they share.          *)

VARIABLES
  docs,   \* docs[p]: the document set caller p passes to its calls
  call,   \* call[p]: the call caller p has in progress, or IdleCall
  fs,     \* fs[path]: the text of the file at path, or Absent
  dirs,   \* the temporary directories created so far
  remote  \* what the server of the URL answers

vars == <<docs, call, fs, dirs, remote>>

Procs == 1..NumProcs
\* The paths callers save to.
UserPaths == {<<"user", 1>>, <<"user", 2>>}
\* path.join(tmpdir, 'temp.yaml') for the directory numbered d
TmpPath(d) == <<"tmp", d>>
TmpPaths == {TmpPath(d) : d \in 1..MaxTmpDirs}
FilePaths == UserPaths \cup TmpPaths
Url == <<"url", 1>>
NoPath == <<"none", 0>>
Absent == <<"<absent>">>

NoResponse == [spawned |-> FALSE, status |-> 0, size |-> 0, out |-> <<>>]

IdleCall ==
  [ op |-> "none", pc |-> "idle", path |-> NoPath,
    resp |-> NoResponse, fetches |-> 0,  \* the collaborator's answer, and its runs
    body |-> <<>>,                       \* the text loadurl returned
    parsed |-> FALSE, raw |-> <<>>,      \* the parse phase ran; the converted documents
    versions |-> {},                     \* the schema versions given to the codec
    snap |-> <<>>,                       \* the file's text when the call was issued
    returned |-> FALSE, result |-> <<>>, \* the value returned
    err |-> "none" ]

\* fs.writeFileSync overwriting every file that exists.  A mutation of WriteFile.
WriteFile_clobber(fsNow, path, data) ==
  [q \in FilePaths |-> IF q = path \/ fsNow[q] # Absent THEN data ELSE fsNow[q]]

\* fs.writeFileSync(filePath, data, {encoding: 'utf8'})
WriteFile(fsNow, path, data) == [fsNow EXCEPT ![path] = data]

\* A directory name that may exist already.  A mutation of mkdtempSync.
mkdtempSync_reuse(dirsNow) == 1..MaxTmpDirs

\* fs.mkdtempSync(prefix): the names it may return, none of them in use.
mkdtempSync(dirsNow) == (1..MaxTmpDirs) \ dirsNow

\* The answers of the fetch collaborator (the _loadurl.mjs child process) for
\* a location: it may fail to start; it exits nonzero when it cannot read the
\* location; otherwise it prints the text of the file or of the URL.
Collaborator(loc, fsNow, remoteNow) ==
  {[spawned |-> FALSE, status |-> 0, size |-> 0, out |-> <<>>]}
  \cup
  IF loc \in FilePaths
  THEN IF fsNow[loc] = Absent
       THEN {[spawned |-> TRUE, status |-> 1, size |-> 0, out |-> <<>>]}
       ELSE {[spawned |-> TRUE, status |-> 0, size |-> Len(fsNow[loc]),
              out |-> fsNow[loc]]}
  ELSE {[spawned |-> TRUE, status |-> remoteNow.status, size |-> remoteNow.size,
         out |-> remoteNow.out]}

\* loadurl that does not look at the exit status.  A mutation of loadurl.
loadurl_anyStatus(resp) ==
  IF ~resp.spawned \/ resp.size > MAX_DOWNLOAD_BUFFER
  THEN [ok |-> FALSE, text |-> <<>>]
  ELSE [ok |-> TRUE, text |-> resp.out]

\* loadurl(url): execFileSync throws when the child cannot be started, when
\* it exits nonzero and when its output is longer than maxBuffer.
loadurl(resp) ==
  IF ~resp.spawned \/ resp.status # 0 \/ resp.size > MAX_DOWNLOAD_BUFFER
  THEN [ok |-> FALSE, text |-> <<>>]
  ELSE [ok |-> TRUE, text |-> resp.out]

----------------------------------------------------------------------------
(* The operations.                                                          *)

\* Yaml.stringify(...docs), also reached through Yaml.formatObjects(docs)
DoStringify(p) ==
  /\ call[p].pc = "idle"
  /\ call' = [call EXCEPT ![p] =
       [IdleCall EXCEPT !.op = "stringify", !.pc = "done",
                        !.versions = {yamlSchemaVersion},
                        !.returned = TRUE, !.result = Stringify(docs[p])]]
  /\ UNCHANGED <<docs, fs, dirs, remote>>

\* Yaml.save(filePath, docs)
DoSave(p) ==
  /\ call[p].pc = "idle"
  /\ \E path \in UserPaths :
       /\ call' = [call EXCEPT ![p] =
            [IdleCall EXCEPT !.op = "save", !.pc = "done", !.path = path,
                             !.versions = {yamlSchemaVersion},
                             !.snap = fs[path], !.returned = TRUE]]
       /\ fs' = WriteFile(fs, path, Stringify(docs[p]))
  /\ UNCHANGED <<docs, dirs, remote>>

\* Yaml.save when fs.writeFileSync throws: the error reaches the caller.
SaveFails(p) ==
  /\ call[p].pc = "idle"
  /\ \E path \in UserPaths :
       call' = [call EXCEPT ![p] =
         [IdleCall EXCEPT !.op = "save", !.pc = "failed", !.path = path,
                          !.versions = {yamlSchemaVersion},
                          !.snap = fs[path], !.err = "FilesystemError"]]
  /\ UNCHANGED <<docs, fs, dirs, remote>>

\* Yaml.tmp(docs), its first two lines: the directory and the file's path.
TmpMkdtemp(p) ==
  /\ call[p].pc = "idle"
  /\ \E d \in mkdtempSync(dirs) :
       /\ dirs' = dirs \cup {d}
       /\ call' = [call EXCEPT ![p] =
            [IdleCall EXCEPT !.op = "tmp", !.pc = "tmp_save", !.path = TmpPath(d)]]
  /\ UNCHANGED <<docs, fs, remote>>

\* Yaml.tmp(docs), its last two lines: Yaml.save and the return.
TmpSave(p) ==
  /\ call[p].pc = "tmp_save"
  /\ fs' = WriteFile(fs, call[p].path, Stringify(docs[p]))
  /\ call' = [call EXCEPT ![p].pc = "done",
                          ![p].versions = {yamlSchemaVersion},
                          ![p].returned = TRUE, ![p].result = call[p].path]
  /\ UNCHANGED <<docs, dirs, remote>>

\* Yaml.load(urlOrFile) up to the start of the child process of loadurl.  The
\* caller names a user path, a path that Yaml.tmp has returned, or the URL.
LoadStart(p) ==
  /\ call[p].pc = "idle"
  /\ \E loc \in UserPaths \cup {q \in TmpPaths : fs[q] # Absent} \cup {Url} :
       call' = [call EXCEPT ![p] =
         [IdleCall EXCEPT !.op = "load", !.pc = "fetch", !.path = loc,
                          !.snap = IF loc \in FilePaths THEN fs[loc] ELSE <<>>]]
  /\ UNCHANGED <<docs, fs, dirs, remote>>

\* The child process runs and execFileSync returns or throws.
LoadFetch(p) ==
  /\ call[p].pc = "fetch"
  /\ \E resp \in Collaborator(call[p].path, fs, remote) :
       LET got == loadurl(resp)
       IN call' = [call EXCEPT ![p].resp = resp,
                               ![p].fetches = call[p].fetches + 1,
                               ![p].pc = IF got.ok THEN "parse" ELSE "failed",
                               ![p].err = IF got.ok THEN "none" ELSE "FetchError",
                               ![p].body = got.text]
  /\ UNCHANGED <<docs, fs, dirs, remote>>

\* Yaml.load from YAML.parseAllDocuments to the return: every document is
\* converted with toJSON (which throws on an unresolved alias) before the
\* loop starts; the loop keeps what the four tests do not skip.
LoadParse(p) ==
  /\ call[p].pc = "parse"
  /\ LET objects == ParseAllDocuments(call[p].body, yamlSchemaVersion)
         throws == \E i \in 1..Len(objects) : objects[i].throws
         raw == [i \in 1..Len(objects) |-> objects[i].value]
     IN call' = [call EXCEPT ![p].parsed = TRUE,
                             ![p].versions = {yamlSchemaVersion},
                             ![p].pc = IF throws THEN "failed" ELSE "done",
                             ![p].err = IF throws THEN "ParseError" ELSE "none",
                             ![p].raw = IF throws THEN <<>> ELSE raw,
                             ![p].returned = ~throws,
                             ![p].result = IF throws THEN <<>> ELSE FilterEmpty(raw)]
  /\ UNCHANGED <<docs, fs, dirs, remote>>

\* The caller takes the result or the error and is free for its next call.
Return(p) ==
  /\ call[p].pc \in {"done", "failed"}
  /\ call' = [call EXCEPT ![p] = IdleCall]
  /\ UNCHANGED <<docs, fs, dirs, remote>>

Step(p) ==
  \/ DoStringify(p)
  \/ DoSave(p)
  \/ SaveFails(p)
  \/ TmpMkdtemp(p)
  \/ TmpSave(p)
  \/ LoadStart(p)
  \/ LoadFetch(p)
  \/ LoadParse(p)

NoFiles == [q \in FilePaths |-> Absent]

\* One synchronous caller issuing its calls one after the other: with any
\* document set while the URL refuses, and with any answer of the URL (which
\* no operation relates to the documents) for one document set.
Init ==
  /\ \E D \in DocSets, r \in RemoteAnswers :
       /\ D = <<>> \/ r = Refusal
       /\ docs = [p \in Procs |-> D]
       /\ remote = r
  /\ call = [p \in Procs |-> IdleCall]
  /\ fs = NoFiles
  /\ dirs = {}

Next == Step(1) \/ Return(1)

Spec == Init /\ [][Next]_vars

\* The document set of caller p when callers run side by side: its own.
OwnDocs(p) == <<Undef, Obj(<<<<KeyA, Num(p)>>>>)>>

\* Several callers (processes), each issuing one call; their steps interleave.
\* The first user path holds what an earlier save wrote.
InitConc ==
  /\ docs = [p \in Procs |-> OwnDocs(p)]
  /\ remote \in {Refusal, [status |-> 0, size |-> Len(OctalText), out |-> OctalText]}
  /\ call = [p \in Procs |-> IdleCall]
  /\ fs = [NoFiles EXCEPT ![<<"user", 1>>] = Stringify(OwnDocs(0))]
  /\ dirs = {}

NextConc == \E p \in Procs : Step(p)

SpecConc == InitConc /\ [][NextConc]_vars

----------------------------------------------------------------------------
(* The properties.                                                          *)

Done(p, op) == call[p].op = op /\ call[p].pc = "done"

\* The four kinds of value the specification calls empty.
IsOneOfFour(v) ==
  \/ v.k = "undefined"
  \/ v.k = "null"
  \/ v.k = "array" /\ v.v = <<>>
  \/ v.k = "object" /\ v.v = <<>>

NotOneOfFour(v) == ~IsOneOfFour(v)

\* A value with the undefined members of a mapping or sequence turned to null.
UndefinedToNull(v) ==
  CASE v.k = "array" ->
         Arr([i \in 1..Len(v.v) |->
                IF v.v[i].k = "undefined" THEN Null ELSE v.v[i]])
    [] v.k = "object" ->
         Obj([i \in 1..Len(v.v) |->
                <<v.v[i][1], IF v.v[i][2].k = "undefined" THEN Null ELSE v.v[i][2]>>])
    [] OTHER -> v

Nullified(D) == [i \in 1..Len(D) |-> UndefinedToNull(D[i])]

\* What Yaml.load returns for a text, run on its own.
LoadOf(text) ==
  LET objects == ParseAllDocuments(text, "1.1")
  IN FilterEmpty([i \in 1..Len(objects) |-> objects[i].value])

\* The text of one document block: a blank line for undefined.
BlockOf(r) ==
  IF r.k = "undefined" THEN <<NL>> ELSE YamlStringify(r, keepUndefined, "1.1")

SeparatorCount(lines) == Cardinality({i \in 1..Len(lines) : lines[i] = Marker})

\* C1: the text stringify returns for N values is N document blocks, the
\* i-th the serialization of the i-th value (a blank line for undefined),
\* with exactly N-1 separator lines between them; for N = 0 it is empty.
C1_StringifyBlocks ==
  \A p \in Procs : Done(p, "stringify") =>
    LET D == docs[p]
        text == call[p].result
        lines == SplitLines(text)
        runs == SplitDocs(lines)
    IN IF Len(D) = 0 THEN text = <<>>
       ELSE /\ text # <<>>
            /\ text[Len(text)] = NL
            /\ SeparatorCount(lines) = Len(D) - 1
            /\ Len(runs) = Len(D)
            /\ \A i \in 1..Len(D) : runs[i] = SplitLines(BlockOf(D[i]))

C1_Witness ==
  \E p \in Procs :
    /\ Done(p, "stringify")
    /\ Len(docs[p]) = 2
    /\ docs[p][1] = Undef
    /\ docs[p][2].k = "object"

\* C2: load returns exactly the converted documents that are not undefined,
\* null, an empty sequence or a mapping with zero keys; every other value the
\* parser produces is kept.
C2_LoadKeepsAllButFour ==
  \A p \in Procs : Done(p, "load") =>
    call[p].result = SelectSeq(call[p].raw, NotOneOfFour)

\* The documents save may be given for the round trip: scalars, non-empty
\* mappings and non-empty sequences.
IsRoundTripDocument(v) ==
  \/ v.k \in {"boolean", "number", "string"}
  \/ v.k \in {"array", "object"} /\ v.v # <<>>

RoundTripSet(D) == \A i \in 1..Len(D) : IsRoundTripDocument(D[i])

\* C3 as stated: save(path, D) then load(path) returns a list equal to D.
C3_RoundTripEqual ==
  \A p \in Procs :
    Done(p, "load") /\ call[p].path \in UserPaths /\ RoundTripSet(docs[p])
      => call[p].result = docs[p]

\* C3: save(path, D) then load(path), for D of scalars, non-empty mappings and
\* non-empty sequences, returns D in its order and length, with the undefined
\* members of its mappings and sequences read back as null.
C3_RoundTripNullified ==
  \A p \in Procs :
    Done(p, "load") /\ call[p].path \in UserPaths /\ RoundTripSet(docs[p])
      => call[p].result = Nullified(docs[p])

C3_Witness ==
  \E p \in Procs :
    /\ Done(p, "load")
    /\ call[p].path \in UserPaths
    /\ RoundTripSet(docs[p])
    /\ Len(docs[p]) = 2
    /\ docs[p][1] = Str(OctalLiteral)

\* C4: a load whose text holds a malformed document returns no list.
C4_MalformedFails ==
  \A p \in Procs : call[p].op = "load" /\ call[p].returned =>
    LET objects == ParseAllDocuments(call[p].body, "1.1")
    IN \A i \in 1..Len(objects) : ~objects[i].errors

\* An answer of the collaborator that is a fetch failure.
IsFetchFailure(resp) ==
  ~resp.spawned \/ resp.status # 0 \/ resp.size > 10 * 1024 * 1024

\* C5: when the collaborator cannot be started, exits nonzero or prints more
\* than 10 MiB, load fails with a fetch failure: the parse phase does not run,
\* nothing is returned, and the collaborator ran once.
C5_FetchFailure ==
  \A p \in Procs :
    call[p].op = "load" /\ call[p].fetches >= 1 /\ IsFetchFailure(call[p].resp)
      => /\ call[p].pc = "failed"
         /\ call[p].err = "FetchError"
         /\ ~call[p].parsed
         /\ ~call[p].returned
         /\ call[p].fetches = 1

C5_Witness ==
  \E p \in Procs :
    /\ call[p].op = "load"
    /\ call[p].pc = "failed"
    /\ call[p].resp.spawned
    /\ call[p].resp.status = 0
    /\ call[p].resp.size > 10 * 1024 * 1024

C7_TmpDistinct ==
  \A p \in Procs : call[p].op = "tmp" =>
    /\ \A q \in Procs \ {p} : call[q].op = "tmp" => call[q].path # call[p].path
    /\ call[p].pc = "done" =>
         /\ call[p].result = call[p].path
         /\ fs[call[p].result] = Stringify(docs[p])

C7_Witness ==
  \E p, q \in Procs : p # q /\ Done(p, "tmp") /\ Done(q, "tmp")

\* Another call writes the path of p's call.
HasOtherWriter(p) ==
  \E q \in Procs \ {p} :
    call[q].op \in {"save", "tmp"} /\ call[q].path = call[p].path

\* A finished stringify or save gave what it gives alone.
WritersAsAlone ==
  \A p \in Procs :
    /\ Done(p, "stringify") => call[p].result = Stringify(docs[p])
    /\ Done(p, "save") /\ ~HasOtherWriter(p) => fs[call[p].path] = Stringify(docs[p])

\* C8 as stated: in every interleaving each call gives what it gives alone;
\* a load returns what the file held when the call was issued.
C8_AsIfAlone ==
  /\ WritersAsAlone
  /\ \A p \in Procs : Done(p, "load") /\ call[p].path \in FilePaths =>
       call[p].snap # Absent /\ call[p].result = LoadOf(call[p].snap)

\* C8: calls on different paths are independent: a load of a path that no
\* other call writes returns what it returns alone, and so do stringify and a
\* save to a path no other call writes.
C8_IndependentPaths ==
  /\ WritersAsAlone
  /\ \A p \in Procs :
       Done(p, "load") /\ call[p].path \in FilePaths /\ ~HasOtherWriter(p) =>
         call[p].snap # Absent /\ call[p].result = LoadOf(call[p].snap)

C8_Witness ==
  \E p, q \in Procs :
    /\ Done(p, "load")
    /\ call[p].path \in UserPaths
    /\ ~HasOtherWriter(p)
    /\ Done(q, "save")

\* The call has used the codec.
UsedCodec(p) ==
  \/ Done(p, "stringify") \/ Done(p, "save") \/ Done(p, "tmp")
  \/ call[p].op = "load" /\ call[p].parsed

\* C9: every codec call is given schema version 1.1 and no other, and a
\* document whose text is the literal 0775 loads as the number 509.
C9_SchemaVersion ==
  \A p \in Procs :
    /\ call[p].versions \subseteq {"1.1"}
    /\ UsedCodec(p) => call[p].versions = {"1.1"}
    /\ Done(p, "load") /\ call[p].body = <<"0", "7", "7", "5", NL>> =>
         call[p].result = <<Num(7 * 64 + 7 * 8 + 5)>>

C9_Witness ==
  \E p \in Procs :
    Done(p, "load") /\ call[p].body = <<"0", "7", "7", "5", NL>>

HasUndefinedMember(v) ==
  v.k = "object" /\ \E j \in 1..Len(v.v) : v.v[j][2].k = "undefined"

\* C10: a mapping is emitted with all its keys, in order, a key whose value
\* is undefined as `key: null`; a document that is undefined is emitted as a
\* blank line, not as null.
C10_UndefinedKeysKept ==
  \A p \in Procs : Done(p, "stringify") =>
    LET D == docs[p]
        runs == SplitDocs(SplitLines(call[p].result))
    IN Len(D) >= 1 =>
         /\ Len(runs) = Len(D)
         /\ \A i \in 1..Len(D) :
              /\ D[i].k = "undefined" => runs[i] = <<<<>>>> /\ runs[i] # <<NullWord>>
              /\ D[i].k = "object" /\ D[i].v # <<>> =>
                   /\ Len(runs[i]) = Len(D[i].v)
                   /\ \A j \in 1..Len(D[i].v) :
                        /\ StartsWith(runs[i][j], D[i].v[j][1] \o <<":", " ">>)
                        /\ D[i].v[j][2].k = "undefined" =>
                             runs[i][j] = D[i].v[j][1] \o <<":", " ">> \o NullWord

C10_Witness ==
  \E p \in Procs :
    /\ Done(p, "stringify")
    /\ \E i \in 1..Len(docs[p]) : HasUndefinedMember(docs[p][i])
    /\ \E i \in 1..Len(docs[p]) : docs[p][i] = Undef

====
